---- MODULE Spec2Model ----
(***************************************************************************)
(* A model of the PocketBase marketplace backend (src/main.go,             *)
(* src/didit.go): the Stripe checkout handler and payment webhook, the     *)
(* Didit verification start handler and identity webhook, and the hook     *)
(* that provisions a Stream channel when a proposal is accepted.           *)
(*                                                                         *)
(* Every HTTP request and every hook invocation runs on its own goroutine. *)
(* A handler is therefore a task that advances in steps; one step holds    *)
(* exactly one access to the record store that can conflict with another   *)
(* task (a read that decides a later write, a provider call, a write).     *)
(* The concurrent specifications interleave the steps of MaxTasks tasks;   *)
(* the sequential ones start a handler only when no other one is running.  *)
(***************************************************************************)
EXTENDS Integers, Sequences, FiniteSets, TLC

VARIABLES
    users,          \* the "users" collection: id -> record
    payments,       \* the "payments" collection: id -> record
    proposals,      \* the "proposals" collection: id -> record
    conversations,  \* the "conversations" collection: a sequence of records
    stripeSessions, \* checkout sessions held by the payment provider
    stream,         \* users and channels held by the messaging provider
    nextSession,    \* number of identity sessions the provider has issued
    calc,           \* the fee computation: its inputs and its result
    tasks,          \* the running handlers: task id -> its position and locals
    last            \* the response of the handler that returned last

vars == <<users, payments, proposals, conversations, stripeSessions, stream,
          nextSession, calc, tasks, last>>

(***************************************************************************)
(* Bounds of the model.                                                    *)
(***************************************************************************)
MaxTasks == 2
MaxPayments == 2

TaskIds == 1..MaxTasks
Idle == [pc |-> "idle"]
NoResponse == [kind |-> "none"]
AllIdle == \A t \in TaskIds : tasks[t] = Idle

\* The empty string of an id field, and the nil auth record.
NoId == 0
NoAuth == "anonymous"
NoRecord == [none |-> TRUE]

(***************************************************************************)
(* The records the REST API created before the modelled requests arrive.   *)
(***************************************************************************)
UserIds == {"c1", "c2", "f1", "f2", "f3"}

InitUser(role, deleted) ==
    [role |-> role, is_deleted |-> deleted, didit_session_id |-> NoId,
     verification_status |-> "", verification_reason |-> ""]

InitUsers ==
    [u \in UserIds |->
        CASE u = "c1" -> InitUser("client", FALSE)
          [] u = "c2" -> InitUser("client", FALSE)
          [] u = "f1" -> InitUser("freelancer", FALSE)
          [] u = "f2" -> InitUser("freelancer", TRUE)
          [] u = "f3" -> InitUser("freelancer", FALSE)]

ProjectIds == {"p1", "p2"}

projects ==
    [p \in ProjectIds |->
        CASE p = "p1" -> [client_id |-> "c1", is_deleted |-> FALSE]
          [] p = "p2" -> [client_id |-> "c1", is_deleted |-> TRUE]]

(***************************************************************************)
(* The response of the handler that returned last. The sequential          *)
(* specifications keep it (keep = TRUE); "again" says that the handler     *)
(* that returned just before it was the same operation on the same         *)
(* request, "prev" is what that one answered and wrote, and "before" is    *)
(* the number of payments and provider sessions when the handler started.  *)
(***************************************************************************)
SameAsLast(op, req) ==
    /\ last.kind = "return"
    /\ last.op = op
    /\ last.req = req

\* Taken when a handler starts: whether it repeats the one before it.
Seen(op, req) ==
    [again |-> SameAsLast(op, req),
     before |-> [payments |-> Cardinality(DOMAIN payments),
                 sessions |-> Cardinality(stripeSessions)],
     prev |-> IF SameAsLast(op, req)
              THEN [code |-> last.code, writes |-> last.writes,
                    saves |-> last.saves]
              ELSE [code |-> 0, writes |-> 0, saves |-> 0]]

Respond(op, req, code, out, saves, writes, seen, keep) ==
    IF ~keep THEN last
    ELSE [kind |-> "return", op |-> op, req |-> req, code |-> code, out |-> out,
          saves |-> saves, writes |-> writes,
          again |-> seen.again, prev |-> seen.prev, before |-> seen.before]

\* A handler that does not return in its first step has taken what it needs
\* of the last response with Seen.
Started(keep) == IF keep THEN NoResponse ELSE last

\* The state right after a handler has returned, in a sequential run.
Returned(op) ==
    /\ \A t \in 1..MaxTasks : tasks[t] = [pc |-> "idle"]
    /\ last.kind = "return"
    /\ last.op = op

(***************************************************************************)
(* Record store: SaveRecord writes the whole record, or fails and writes   *)
(* nothing.                                                                *)
(***************************************************************************)
\* A store that acknowledges a save and keeps nothing.
SaveRecordLost(store, id, rec, ok) == store

\* A store that keeps the record of a save that it reports as failed.
SaveRecordTorn(store, id, rec, ok) ==
    [x \in DOMAIN store \cup {id} |-> IF x = id THEN rec ELSE store[x]]

SaveRecord(store, id, rec, ok) ==
    IF ok THEN [x \in DOMAIN store \cup {id} |-> IF x = id THEN rec ELSE store[x]]
    ELSE store

FindRecordById(store, id) ==
    IF id \in DOMAIN store THEN store[id] ELSE NoRecord

(***************************************************************************)
(* POST /stripe/checkout                                                   *)
(***************************************************************************)
ValidCheckout ==
    [auth |-> "c1", bindOk |-> TRUE, amount |-> 100, project_id |-> "p1",
     freelancer_id |-> "f1", currency |-> "EUR"]

\* The valid request, every single deviation from it, and some double ones.
CheckoutRequests ==
    {ValidCheckout}
    \cup {[ValidCheckout EXCEPT !.auth = a] : a \in {NoAuth, "f1", "c2"}}
    \cup {[ValidCheckout EXCEPT !.bindOk = FALSE]}
    \cup {[ValidCheckout EXCEPT !.amount = a] : a \in {0, -1}}
    \cup {[ValidCheckout EXCEPT !.project_id = p] : p \in {"", "p2", "px"}}
    \cup {[ValidCheckout EXCEPT !.freelancer_id = f] : f \in {"", "f2", "c2", "fx"}}
    \cup {[ValidCheckout EXCEPT !.auth = "f1", !.amount = 0],
          [ValidCheckout EXCEPT !.amount = 0, !.project_id = "px"],
          [ValidCheckout EXCEPT !.project_id = "px", !.freelancer_id = "fx"],
          [ValidCheckout EXCEPT !.project_id = "p2", !.freelancer_id = "f2"]}

\* strings.ToLower on the currency codes the requests carry.
ToLowerCurrency(c) == IF c = "EUR" THEN "eur" ELSE c

NormalizeCurrency(c) == ToLowerCurrency(IF c = "" THEN "usd" ELSE c)

\* A handler without the check of the amount.
CheckoutValidateAnyAmount(req, us) ==
    IF req.auth = NoAuth THEN 401
    ELSE IF us[req.auth].role # "client" THEN 403
    ELSE IF ~req.bindOk THEN 400
    ELSE IF req.project_id = "" \/ req.freelancer_id = "" THEN 400
    ELSE IF req.project_id \notin DOMAIN projects THEN 404
    ELSE IF projects[req.project_id].is_deleted
            \/ projects[req.project_id].client_id # req.auth THEN 403
    ELSE IF req.freelancer_id \notin DOMAIN us THEN 404
    ELSE IF us[req.freelancer_id].is_deleted
            \/ us[req.freelancer_id].role # "freelancer" THEN 400
    ELSE 0

\* A handler that does not compare the project's client with the caller.
CheckoutValidateAnyOwner(req, us) ==
    IF req.auth = NoAuth THEN 401
    ELSE IF us[req.auth].role # "client" THEN 403
    ELSE IF ~req.bindOk THEN 400
    ELSE IF req.amount <= 0 THEN 400
    ELSE IF req.project_id = "" \/ req.freelancer_id = "" THEN 400
    ELSE IF req.project_id \notin DOMAIN projects THEN 404
    ELSE IF projects[req.project_id].is_deleted THEN 403
    ELSE IF req.freelancer_id \notin DOMAIN us THEN 404
    ELSE IF us[req.freelancer_id].is_deleted
            \/ us[req.freelancer_id].role # "freelancer" THEN 400
    ELSE 0

\* The status code of the first check that rejects the request, 0 if none does.
CheckoutValidate(req, us) ==
    IF req.auth = NoAuth THEN 401
    ELSE IF us[req.auth].role # "client" THEN 403
    ELSE IF ~req.bindOk THEN 400
    ELSE IF req.amount <= 0 THEN 400
    ELSE IF req.project_id = "" \/ req.freelancer_id = "" THEN 400
    ELSE IF req.project_id \notin DOMAIN projects THEN 404
    ELSE IF projects[req.project_id].is_deleted
            \/ projects[req.project_id].client_id # req.auth THEN 403
    ELSE IF req.freelancer_id \notin DOMAIN us THEN 404
    ELSE IF us[req.freelancer_id].is_deleted
            \/ us[req.freelancer_id].role # "freelancer" THEN 400
    ELSE 0

NewPayment(req) ==
    [client_id |-> req.auth, freelancer_id |-> req.freelancer_id,
     amount |-> req.amount, currency |-> NormalizeCurrency(req.currency),
     stripe_checkout_session_id |-> NoId, stripe_payment_intent_id |-> "",
     status |-> "created", is_deleted |-> FALSE]

\* A handler that forgets to mark the record before it saves it again.
CompensationStatusKept == "created"

\* The status the handler sets on its record when session.New fails.
CompensationStatus == "failed"

PayTask(pc, op, req, id, rec, saves, writes, provider, seen) ==
    [pc |-> pc, op |-> op, req |-> req, id |-> id, rec |-> rec,
     saves |-> saves, writes |-> writes, provider |-> provider, seen |-> seen]

\* What a payment handler hands back: the payment it worked on, whether the
\* provider call was made and how it ended, and the checkout URL.
PayOut(id, provider, url) == [id |-> id, provider |-> provider, url |-> url]

\* Lines 71-130: the checks, then the Payment record is created and saved.
CheckoutBegin(t, req, saveOk, keep) ==
    /\ tasks[t] = Idle
    /\ LET code == CheckoutValidate(req, users)
           id == Cardinality(DOMAIN payments) + 1
       IN  IF code # 0
           THEN /\ last' = Respond("checkout", req, code, PayOut(NoId, "none", ""),
                                   0, 0, Seen("checkout", req), keep)
                /\ UNCHANGED <<payments, tasks>>
           ELSE /\ id <= MaxPayments
                /\ IF saveOk
                   THEN /\ payments' = SaveRecord(payments, id, NewPayment(req), TRUE)
                        /\ tasks' = [tasks EXCEPT ![t] =
                               PayTask("session", "checkout", req, id,
                                       NewPayment(req), 1, 1, "none",
                                       Seen("checkout", req))]
                        /\ last' = Started(keep)
                   ELSE /\ last' = Respond("checkout", req, 500,
                                           PayOut(NoId, "none", ""), 1, 0,
                                           Seen("checkout", req), keep)
                        /\ UNCHANGED <<payments, tasks>>
    /\ UNCHANGED <<calc, users, proposals, conversations, stream, stripeSessions, nextSession>>

\* A handler that forgets the id of the session it created.
SetSessionForgotten(payment, sid) == payment

\* Line 173: payment.Set("stripe_checkout_session_id", checkoutSession.ID).
SetSession(payment, sid) ==
    [payment EXCEPT !.stripe_checkout_session_id = sid]

\* Lines 132-173: session.New with the payment id in the metadata.
CheckoutSession(t, providerOk) ==
    /\ tasks[t].pc = "session"
    /\ LET sid == Cardinality(stripeSessions) + 1
       IN  IF providerOk
           THEN /\ stripeSessions' = stripeSessions \cup
                        {[id |-> sid, payment_id |-> tasks[t].id]}
                /\ tasks' = [tasks EXCEPT ![t].pc = "save", ![t].provider = "ok",
                        ![t].rec = SetSession(@, sid)]
           ELSE /\ stripeSessions' = stripeSessions
                /\ tasks' = [tasks EXCEPT ![t].pc = "save", ![t].provider = "failed",
                        ![t].rec.status = CompensationStatus]
    /\ UNCHANGED <<calc, users, payments, proposals, conversations, stream, nextSession, last>>

\* Lines 168-181: the second save of the record, and the response.
CheckoutSave(t, saveOk, keep) ==
    /\ tasks[t].pc = "save"
    /\ tasks[t].op = "checkout"
    /\ payments' = SaveRecord(payments, tasks[t].id, tasks[t].rec, saveOk)
    /\ LET wrote == IF saveOk THEN 1 ELSE 0
           ok == tasks[t].provider = "ok" /\ saveOk
       IN  last' = Respond("checkout", tasks[t].req, IF ok THEN 200 ELSE 500,
                           PayOut(tasks[t].id, tasks[t].provider,
                                  IF ok THEN "checkout_url" ELSE ""),
                           tasks[t].saves + 1, tasks[t].writes + wrote,
                           tasks[t].seen, keep)
    /\ tasks' = [tasks EXCEPT ![t] = Idle]
    /\ UNCHANGED <<calc, users, proposals, conversations, stream, stripeSessions, nextSession>>

(***************************************************************************)
(* POST /stripe/webhook                                                    *)
(***************************************************************************)
HandledTypes ==
    {"checkout.session.completed", "payment_intent.succeeded",
     "payment_intent.payment_failed"}

IntentIds == {"", "pi_A", "pi_B"}

Event(shape, type, pid, intent, signed) ==
    [shape |-> shape, type |-> type, payment_id |-> pid, intent |-> intent,
     signed |-> signed]

\* shape: "badjson" (the envelope does not parse), "baddata" (the object in
\* data does not parse), "nointent" (a session without payment_intent) or "ok".
\* signed: whether the request carries the provider's valid signature.
WebhookRequests ==
    {Event("ok", ty, pid, i, TRUE) :
        ty \in HandledTypes, pid \in 1..MaxPayments, i \in IntentIds}
    \cup {Event("ok", ty, pid, "pi_A", TRUE) :
        ty \in HandledTypes, pid \in {NoId, MaxPayments + 1}}
    \cup {Event("ok", ty, 1, "pi_A", FALSE) : ty \in HandledTypes}
    \cup {Event("baddata", ty, NoId, "", TRUE) : ty \in HandledTypes}
    \cup {Event("nointent", "checkout.session.completed", 1, "", TRUE),
          Event("nointent", "checkout.session.completed", MaxPayments + 1, "", TRUE),
          Event("ok", "charge.refunded", 1, "pi_A", TRUE),
          Event("badjson", "", NoId, "", TRUE)}

\* A handler for which every handled event reports a payment.
TargetStatusPaid(type) == "paid"

\* Lines 199-242: the status a handled event type asks for.
TargetStatus(type) ==
    IF type = "payment_intent.payment_failed" THEN "failed" ELSE "paid"

\* A guard that only knows the "paid" target.
StatusUnchangedPaidOnly(current, target) == current = "paid"

\* Line 344: the update is skipped when the stored status is the target.
StatusUnchanged(current, target) == current = target

\* An update that sets the status only.
ApplyWebhookStatusOnly(payment, status, paymentIntentID) ==
    [payment EXCEPT !.status = status]

\* Lines 348-351: the fields the update sets on the record it read.
ApplyWebhook(payment, status, paymentIntentID) ==
    [payment EXCEPT
        !.stripe_payment_intent_id =
            IF paymentIntentID # "" THEN paymentIntentID ELSE @,
        !.status = status]

\* Lines 188-242 and 338-351: what the handler decides before it saves.
\* code 0 means that a save is pending. A session event without a payment
\* intent dereferences a nil pointer at line 209: the recovered panic is a 500.
WebhookDecide(req, store) ==
    IF req.shape = "badjson" THEN [code |-> 400, rec |-> NoRecord]
    ELSE IF req.type \notin HandledTypes THEN [code |-> 400, rec |-> NoRecord]
    ELSE IF req.shape = "baddata" THEN [code |-> 400, rec |-> NoRecord]
    ELSE IF req.payment_id = NoId THEN [code |-> 400, rec |-> NoRecord]
    ELSE IF req.shape = "nointent" THEN [code |-> 500, rec |-> NoRecord]
    ELSE IF FindRecordById(store, req.payment_id) = NoRecord
         THEN [code |-> 404, rec |-> NoRecord]
    ELSE IF StatusUnchanged(store[req.payment_id].status, TargetStatus(req.type))
         THEN [code |-> 200, rec |-> NoRecord]
    ELSE [code |-> 0,
          rec |-> ApplyWebhook(store[req.payment_id], TargetStatus(req.type),
                               req.intent)]

\* The provider reports on a payment id only if a session carries it in its
\* metadata (lines 149-163); a forged request can name any id.
ProviderKnows(req) ==
    (req.signed /\ req.payment_id \in 1..MaxPayments)
        => \E s \in stripeSessions : s.payment_id = req.payment_id

StripeWebhookBegin(t, req, keep) ==
    /\ tasks[t] = Idle
    /\ ProviderKnows(req)
    /\ LET d == WebhookDecide(req, payments)
       IN  IF d.code # 0
           THEN /\ last' = Respond("webhook", req, d.code,
                                   PayOut(req.payment_id, "none", ""), 0, 0,
                                   Seen("webhook", req), keep)
                /\ tasks' = tasks
           ELSE /\ tasks' = [tasks EXCEPT ![t] =
                       PayTask("save", "webhook", req, req.payment_id, d.rec,
                               0, 0, "none", Seen("webhook", req))]
                /\ last' = Started(keep)
    /\ UNCHANGED <<calc, users, payments, proposals, conversations, stream, stripeSessions,
                   nextSession>>

\* Lines 353-357 and 212: SaveRecord, then 200, or 500 when the save fails.
StripeWebhookSave(t, saveOk, keep) ==
    /\ tasks[t].pc = "save"
    /\ tasks[t].op = "webhook"
    /\ payments' = SaveRecord(payments, tasks[t].id, tasks[t].rec, saveOk)
    /\ last' = Respond("webhook", tasks[t].req, IF saveOk THEN 200 ELSE 500,
                       PayOut(tasks[t].id, "none", ""),
                       1, IF saveOk THEN 1 ELSE 0, tasks[t].seen, keep)
    /\ tasks' = [tasks EXCEPT ![t] = Idle]
    /\ UNCHANGED <<calc, users, proposals, conversations, stream, stripeSessions, nextSession>>

(***************************************************************************)
(* Specifications of the payment handlers.                                 *)
(***************************************************************************)
NoFee == [done |-> FALSE]

Init ==
    /\ calc = NoFee
    /\ users = InitUsers
    /\ payments = <<>>
    /\ proposals = <<>>
    /\ conversations = <<>>
    /\ stripeSessions = {}
    /\ stream = [users |-> {}, channels |-> {}]
    /\ nextSession = 0
    /\ tasks = [t \in TaskIds |-> Idle]
    /\ last = NoResponse

PayStep(t, keep) ==
    \/ \E ok \in BOOLEAN : CheckoutSession(t, ok)
    \/ \E ok \in BOOLEAN : CheckoutSave(t, ok, keep)
    \/ \E ok \in BOOLEAN : StripeWebhookSave(t, ok, keep)

\* Handlers run one after the other.
PaySeqNext ==
    \/ /\ AllIdle
       /\ \/ \E req \in CheckoutRequests, ok \in BOOLEAN : CheckoutBegin(1, req, ok, TRUE)
          \/ \E req \in WebhookRequests : StripeWebhookBegin(1, req, TRUE)
    \/ PayStep(1, TRUE)

PaySeqSpec == Init /\ [][PaySeqNext]_vars

\* Handlers run concurrently, up to MaxTasks at a time.
PayNext ==
    \E t \in TaskIds :
        \/ \E req \in CheckoutRequests, ok \in BOOLEAN : CheckoutBegin(t, req, ok, FALSE)
        \/ \E req \in WebhookRequests : StripeWebhookBegin(t, req, FALSE)
        \/ PayStep(t, FALSE)

PaySpec == Init /\ [][PayNext]_vars

(***************************************************************************)
(* Integers of the handlers are int64; the model keeps them IntBits wide.  *)
(***************************************************************************)
IntBits == 16
MinInt == -(2^(IntBits - 1))
MaxInt == 2^(IntBits - 1) - 1
Wrap(x) == ((x - MinInt) % (2^IntBits)) + MinInt

(***************************************************************************)
(* The X-Timestamp header: a string, here a sequence of characters.        *)
(***************************************************************************)
DigitChars == <<"0", "1", "2", "3", "4", "5", "6", "7", "8", "9">>

DigitValue(c) == (CHOOSE i \in 1..10 : DigitChars[i] = c) - 1
IsDigit(c) == \E i \in 1..10 : DigitChars[i] = c

RECURSIVE FormatNat(_)
FormatNat(n) ==
    IF n < 10 THEN <<DigitChars[n + 1]>>
    ELSE Append(FormatNat(n \div 10), DigitChars[(n % 10) + 1])

\* strconv.FormatInt(n, 10), as the sender of the header writes it.
FormatInt(n) == IF n < 0 THEN <<"-">> \o FormatNat(-n) ELSE FormatNat(n)

RECURSIVE ParseUint(_, _)
\* The value of a string of digits, -1 for a syntax error, -2 when the value
\* leaves the range of the unsigned integer.
ParseUint(s, acc) ==
    IF s = <<>> THEN acc
    ELSE IF ~IsDigit(Head(s)) THEN -1
    ELSE IF acc * 10 + DigitValue(Head(s)) >= 2^IntBits THEN -2
    ELSE ParseUint(Tail(s), acc * 10 + DigitValue(Head(s)))

\* strconv.ParseInt(s, 10, 64): an optional sign, then digits, within range.
ParseInt(s) ==
    LET neg == s # <<>> /\ Head(s) = "-"
        signed == s # <<>> /\ Head(s) \in {"+", "-"}
        digits == IF signed THEN Tail(s) ELSE s
        un == IF digits = <<>> THEN -1 ELSE ParseUint(digits, 0)
    IN  IF un < 0 THEN [ok |-> FALSE, val |-> 0]
        ELSE IF ~neg /\ un >= 2^(IntBits - 1) THEN [ok |-> FALSE, val |-> 0]
        ELSE IF neg /\ un > 2^(IntBits - 1) THEN [ok |-> FALSE, val |-> 0]
        ELSE [ok |-> TRUE, val |-> IF neg THEN -un ELSE un]

\* didit.go 260-265.
parseDiditTimestamp(value) ==
    IF value = <<>> THEN [ok |-> FALSE, val |-> 0] ELSE ParseInt(value)

\* A comparison that leaves the two ends of the window out.
isTimestampValidStrict(ts, now, maxSkew) ==
    LET diff == Wrap(now - ts)
    IN  diff < maxSkew /\ diff > Wrap(-maxSkew)

\* didit.go 267-270.
isTimestampValid(ts, now, maxSkew) ==
    LET diff == Wrap(now - ts)
    IN  diff <= maxSkew /\ diff >= Wrap(-maxSkew)

MaxSkewSeconds == 300

(***************************************************************************)
(* The X-Signature-V2 header. HMAC-SHA256 is modelled as an ideal keyed     *)
(* digest: the digest of (secret, body) is the pair itself, so two digests  *)
(* are equal exactly when secret and body are. A header is the hex text of  *)
(* a digest in lower or upper case, or empty.                               *)
(***************************************************************************)
WebhookSecret == "whsec_configured"

HmacSha256(secret, body) == [secret |-> secret, body |-> body]

\* hex.EncodeToString writes lower-case digits.
HexEncode(mac) == [mac |-> mac, upper |-> FALSE]

\* A check that does not look at the header.
verifyDiditSignatureV2Skipped(secret, signature, body) == TRUE

\* didit.go 272-286: subtle.ConstantTimeCompare is 1 exactly for equal bytes.
verifyDiditSignatureV2(secret, signature, body) ==
    HexEncode(HmacSha256(secret, body)) = signature

(***************************************************************************)
(* The body: bytes that are a JSON object or not. json.Unmarshal into      *)
(* DiditWebhookPayload fails on bytes that are not JSON and on a field of   *)
(* the wrong JSON type, and leaves the zero value in a field that the       *)
(* object does not have.                                                    *)
(***************************************************************************)
PayloadKeys == {"session_id", "status", "webhook_type", "reason"}

Body(json, strings, obj) == [json |-> json, strings |-> strings, obj |-> obj]

ZeroValue(k) == IF k = "session_id" THEN NoId ELSE ""

Unmarshal(body) ==
    IF ~body.json \/ ~body.strings THEN [ok |-> FALSE]
    ELSE [ok |-> TRUE,
          payload |-> [k \in PayloadKeys |->
                          IF k \in DOMAIN body.obj THEN body.obj[k]
                          ELSE ZeroValue(k)]]

\* strings.ToLower on the status texts the provider sends.
ToLowerStatus(s) ==
    CASE s = "Approved" -> "approved"
      [] s = "Declined" -> "declined"
      [] OTHER -> s

\* A lookup that finds a user whatever the session id.
FindUserBySessionAny(us, sid) == "c1"

\* app.Dao().FindFirstRecordByData("users", "didit_session_id", sid).
FindUserBySession(us, sid) ==
    IF \E u \in DOMAIN us : us[u].didit_session_id = sid
    THEN CHOOSE u \in DOMAIN us : us[u].didit_session_id = sid
    ELSE "none"

\* A comparison that leaves the reason out when the event carries none.
SameVerificationLenient(user, status, payload) ==
    /\ user.verification_status = status
    /\ (payload.reason = "" \/ user.verification_reason = payload.reason)
    /\ user.didit_session_id = payload.session_id

\* didit.go 235-240: the stored triple is the incoming one.
SameVerification(user, status, payload) ==
    /\ user.verification_status = status
    /\ user.verification_reason = payload.reason
    /\ user.didit_session_id = payload.session_id

\* An update that stores the reason of the event even when it is empty.
ApplyVerificationAnyReason(user, status, payload) ==
    [user EXCEPT
        !.verification_status = status,
        !.verification_reason = payload.reason]

\* didit.go 244-247.
ApplyVerification(user, status, payload) ==
    [user EXCEPT
        !.verification_status = status,
        !.verification_reason = IF payload.reason # "" THEN payload.reason ELSE @]

(***************************************************************************)
(* POST /didit/webhook. A request is the two headers, the body and the     *)
(* clock of the server when it arrives; "meant" is what the sender put in   *)
(* the timestamp header.                                                    *)
(***************************************************************************)
DiditRequest(ts, meant, sig, body, now) ==
    [ts |-> ts, meant |-> meant, sig |-> sig, body |-> body, now |-> now]

DiditOut(trace, user) == [trace |-> trace, user |-> user]

\* didit.go 194-243: the checks in the order of the code. trace lists the
\* stages the request reached; code 0 means that a save is pending.
DiditDecide(req, us) ==
    LET ts == parseDiditTimestamp(req.ts)
        dec == Unmarshal(req.body)
        p == dec.payload
        u == FindUserBySession(us, p.session_id)
        status == ToLowerStatus(p.status)
        D(code, trace, user, rec) ==
            [code |-> code, trace |-> trace, user |-> user, rec |-> rec]
    IN  IF ~ts.ok THEN D(401, <<"timestamp">>, "none", NoRecord)
        ELSE IF ~isTimestampValid(ts.val, req.now, MaxSkewSeconds)
             THEN D(401, <<"timestamp">>, "none", NoRecord)
        ELSE IF ~verifyDiditSignatureV2(WebhookSecret, req.sig, req.body)
             THEN D(401, <<"timestamp", "signature">>, "none", NoRecord)
        ELSE IF ~dec.ok
             THEN D(401, <<"timestamp", "signature", "decode">>, "none", NoRecord)
        ELSE IF p.session_id = NoId \/ p.status = "" \/ p.webhook_type = ""
             THEN D(200, <<"timestamp", "signature", "decode">>, "none", NoRecord)
        ELSE IF u = "none"
             THEN D(200, <<"timestamp", "signature", "decode", "find">>,
                    "none", NoRecord)
        ELSE IF SameVerification(us[u], status, p)
             THEN D(200, <<"timestamp", "signature", "decode", "find">>,
                    u, NoRecord)
        ELSE D(0, <<"timestamp", "signature", "decode", "find">>, u,
               ApplyVerification(us[u], status, p))

DiditTask(pc, op, req, user, rec, trace, seen) ==
    [pc |-> pc, op |-> op, req |-> req, user |-> user, rec |-> rec,
     trace |-> trace, seen |-> seen]

DiditWebhookBegin(t, req, keep) ==
    /\ tasks[t] = Idle
    /\ LET d == DiditDecide(req, users)
       IN  IF d.code # 0
           THEN /\ last' = Respond("didit_webhook", req, d.code,
                                   DiditOut(d.trace, d.user), 0, 0,
                                   Seen("didit_webhook", req), keep)
                /\ tasks' = tasks
           ELSE /\ tasks' = [tasks EXCEPT ![t] =
                       DiditTask("save", "didit_webhook", req, d.user, d.rec,
                                 d.trace, Seen("didit_webhook", req))]
                /\ last' = Started(keep)
    /\ UNCHANGED <<calc, users, payments, proposals, conversations, stream, stripeSessions,
                   nextSession>>

\* didit.go 249-256: the save; the answer is 200 whether it succeeds or not.
DiditWebhookSave(t, saveOk, keep) ==
    /\ tasks[t].pc = "save"
    /\ tasks[t].op = "didit_webhook"
    /\ users' = SaveRecord(users, tasks[t].user, tasks[t].rec, saveOk)
    /\ last' = Respond("didit_webhook", tasks[t].req, 200,
                       DiditOut(Append(tasks[t].trace, "save"), tasks[t].user),
                       1, IF saveOk THEN 1 ELSE 0, tasks[t].seen, keep)
    /\ tasks' = [tasks EXCEPT ![t] = Idle]
    /\ UNCHANGED <<calc, payments, proposals, conversations, stream, stripeSessions, nextSession>>

(***************************************************************************)
(* POST /didit/verify                                                      *)
(***************************************************************************)
MaxSessions == 2

StartAuths == {NoAuth, "c1", "f1"}

\* A handler that stores the session id only.
StartVerificationSessionOnly(user, sessionID) ==
    [user EXCEPT !.didit_session_id = sessionID]

\* What verify/start hands back: the user, how the provider call ended, and
\* the session id and verification URL of the response body (lines 185-188).
StartOut(user, provider, sessionID, url) ==
    [user |-> user, provider |-> provider, session_id |-> sessionID, url |-> url]

\* didit.go 177-179.
StartVerification(user, sessionID) ==
    [user EXCEPT !.didit_session_id = sessionID,
                 !.verification_status = "pending",
                 !.verification_reason = ""]

\* didit.go 158-179: the auth record of the request, then the provider call,
\* which answers with a session id it has not issued before.
DiditStartBegin(t, auth, providerOk, keep) ==
    /\ tasks[t] = Idle
    /\ IF auth = NoAuth
       THEN /\ last' = Respond("didit_start", auth, 401,
                               StartOut("none", "none", NoId, ""),
                               0, 0, Seen("didit_start", auth), keep)
            /\ UNCHANGED <<tasks, nextSession>>
       ELSE IF ~providerOk
       THEN /\ last' = Respond("didit_start", auth, 502,
                               StartOut(auth, "failed", NoId, ""),
                               0, 0, Seen("didit_start", auth), keep)
            /\ UNCHANGED <<tasks, nextSession>>
       ELSE /\ nextSession < MaxSessions
            /\ nextSession' = nextSession + 1
            /\ tasks' = [tasks EXCEPT ![t] =
                   DiditTask("save", "didit_start", auth, auth,
                             StartVerification(users[auth], nextSession + 1),
                             <<>>, Seen("didit_start", auth))]
            /\ last' = Started(keep)
    /\ UNCHANGED <<calc, users, payments, proposals, conversations, stream, stripeSessions>>

\* didit.go 181-188.
DiditStartSave(t, saveOk, keep) ==
    /\ tasks[t].pc = "save"
    /\ tasks[t].op = "didit_start"
    /\ users' = SaveRecord(users, tasks[t].user, tasks[t].rec, saveOk)
    /\ last' = Respond("didit_start", tasks[t].req, IF saveOk THEN 200 ELSE 500,
                       IF saveOk
                       THEN StartOut(tasks[t].user, "ok",
                                     tasks[t].rec.didit_session_id,
                                     "verification_url")
                       ELSE StartOut(tasks[t].user, "ok", NoId, ""),
                       1, IF saveOk THEN 1 ELSE 0, tasks[t].seen, keep)
    /\ tasks' = [tasks EXCEPT ![t] = Idle]
    /\ UNCHANGED <<calc, payments, proposals, conversations, stream, stripeSessions, nextSession>>

(***************************************************************************)
(* The identity requests of the model.                                     *)
(***************************************************************************)
\* time.Now().Unix() when the request arrives.
ServerNow == 1000

SessionValues == 1..(MaxSessions + 1)

Garbage == Body(FALSE, FALSE, <<>>)

EventBodies ==
    {Body(TRUE, TRUE, [session_id |-> sid, status |-> st,
                       webhook_type |-> "status.updated", reason |-> r]) :
        sid \in SessionValues, st \in {"Approved", "approved", "Declined"},
        r \in {"", "r1", "r2"}}

\* Objects that lack a field, an object with a number for status, and bytes
\* that are no JSON.
OddBodies ==
    {Body(TRUE, TRUE, [status |-> "Approved", webhook_type |-> "status.updated",
                       reason |-> "r1"]),
     Body(TRUE, TRUE, [session_id |-> 1, webhook_type |-> "status.updated",
                       reason |-> "r1"]),
     Body(TRUE, TRUE, [session_id |-> 1, status |-> "Approved", reason |-> "r1"]),
     Body(TRUE, FALSE, [session_id |-> 1, status |-> "7",
                        webhook_type |-> "status.updated", reason |-> "r1"]),
     Garbage}

ApprovedBody ==
    Body(TRUE, TRUE, [session_id |-> 1, status |-> "Approved",
                      webhook_type |-> "status.updated", reason |-> "r1"])

ValidSignature(body) == HexEncode(HmacSha256(WebhookSecret, body))

\* The headers a sender can get wrong: another secret, the digest of another
\* body, upper-case hex digits, no header.
Signatures(body) ==
    {ValidSignature(body),
     HexEncode(HmacSha256("whsec_other", body)),
     HexEncode(HmacSha256(WebhookSecret, Garbage)),
     HexEncode(HmacSha256(WebhookSecret, ApprovedBody)),
     [ValidSignature(body) EXCEPT !.upper = TRUE],
     HexEncode(HmacSha256("", Garbage))}

Meant(v) == [kind |-> "int", val |-> v]
NotATime == [kind |-> "none", val |-> 0]

\* Timestamp headers: the integers around the window ends and at the ends of
\* the integer range, written as FormatInt writes them or with a plus sign;
\* texts that are no integer; no header.
Timestamps ==
    {<<FormatInt(v), Meant(v)>> :
        v \in {ServerNow + d : d \in {-MaxSkewSeconds - 1, -MaxSkewSeconds, 0,
                                      MaxSkewSeconds, MaxSkewSeconds + 1}}
              \cup {MinInt - 1, MinInt, 0, MaxInt, MaxInt + 1}}
    \cup {<<(<<"+">> \o FormatInt(ServerNow)), Meant(ServerNow)>>}
    \cup {<<h, NotATime>> :
            h \in {<<>>, <<"1", "0", "x">>, <<" ", "1", "0">>, <<"-">>,
                   <<"1", ".", "5">>}}

HeaderRequests ==
    UNION {{DiditRequest(ts[1], ts[2], sig, body, ServerNow) :
                ts \in Timestamps, sig \in Signatures(body)} :
            body \in {ApprovedBody, Garbage}}

BodyRequests ==
    {DiditRequest(FormatInt(ServerNow), Meant(ServerNow), ValidSignature(body),
                  body, ServerNow) : body \in EventBodies \cup OddBodies}
    \cup {DiditRequest(<<>>, NotATime, ValidSignature(ApprovedBody),
                       ApprovedBody, ServerNow),
          DiditRequest(FormatInt(0), Meant(0), ValidSignature(ApprovedBody),
                       ApprovedBody, ServerNow),
          DiditRequest(FormatInt(ServerNow), Meant(ServerNow),
                       ValidSignature(Garbage), ApprovedBody, ServerNow)}

(***************************************************************************)
(* Specifications of the identity handlers, one after the other.           *)
(***************************************************************************)
DiditStep(t, keep) ==
    \/ \E ok \in BOOLEAN : DiditWebhookSave(t, ok, keep)
    \/ \E ok \in BOOLEAN : DiditStartSave(t, ok, keep)

DiditSeqNext(requests) ==
    \/ /\ AllIdle
       /\ \/ \E a \in StartAuths, ok \in BOOLEAN : DiditStartBegin(1, a, ok, TRUE)
          \/ \E req \in requests : DiditWebhookBegin(1, req, TRUE)
    \/ DiditStep(1, TRUE)

\* Well-authenticated deliveries of every kind of body.
DiditSeqSpec == Init /\ [][DiditSeqNext(BodyRequests)]_vars

\* Deliveries with every kind of timestamp and signature header.
DiditAuthSpec == Init /\ [][DiditSeqNext(HeaderRequests)]_vars

\* The identity handlers on MaxTasks goroutines.
DiditNext ==
    \E t \in TaskIds :
        \/ \E a \in StartAuths, ok \in BOOLEAN : DiditStartBegin(t, a, ok, FALSE)
        \/ \E req \in BodyRequests : DiditWebhookBegin(t, req, FALSE)
        \/ DiditStep(t, FALSE)

DiditSpec == Init /\ [][DiditNext]_vars

(***************************************************************************)
(* Proposals and the hook that runs after a proposal was updated.          *)
(***************************************************************************)
ProposalStatuses == {"sent", "accepted", "rejected"}

\* POST /api/collections/proposals/records by a freelancer: the create rule
\* and the unique index on (project_id, freelancer_id).
ProposalCreate(auth, project) ==
    /\ users[auth].role = "freelancer"
    /\ ~users[auth].is_deleted
    /\ ~projects[project].is_deleted
    /\ \A i \in DOMAIN proposals :
           ~(proposals[i].project_id = project /\ proposals[i].freelancer_id = auth)
    /\ proposals' = Append(proposals,
                           [project_id |-> project, freelancer_id |-> auth,
                            client_id |-> projects[project].client_id,
                            status |-> "sent", is_deleted |-> FALSE])
    /\ UNCHANGED <<calc, users, payments, conversations, stripeSessions, stream,
                   nextSession, tasks, last>>

\* A filter that selects the soft-deleted Conversations of the proposal.
SoftDeletedConversations(convs, pid) ==
    {i \in DOMAIN convs : convs[i].proposal_id = pid /\ convs[i].is_deleted}

\* FindFirstRecordByFilter("conversations",
\*     "proposal_id = {:pid} && is_deleted = false").
LiveConversations(convs, pid) ==
    {i \in DOMAIN convs : convs[i].proposal_id = pid /\ ~convs[i].is_deleted}

ConversationNeverFound(convs, pid) == FALSE

\* A check that reports a Conversation for every proposal.
ConversationAlwaysFound(convs, pid) == TRUE

ConversationFound(convs, pid) == LiveConversations(convs, pid) # {}

\* A channel id that does not depend on the project.
channelIdShared(project) == <<"project_", "all">>

\* Line 392: channelId := "project_" + project.Id.
channelId(project) == <<"project_", project>>

\* A record that names a channel other than the one that was created.
NewConversationOtherChannel(project, pid) ==
    [project_id |-> project, proposal_id |-> pid,
     stream_channel_id |-> <<"project_", "none">>, is_deleted |-> FALSE]

\* Lines 412-416.
NewConversation(project, pid) ==
    [project_id |-> project, proposal_id |-> pid,
     stream_channel_id |-> channelId(project), is_deleted |-> FALSE]

HookTask(pc, req, rec, trace, seen) ==
    [pc |-> pc, op |-> "proposal_update", req |-> req, rec |-> rec,
     trace |-> trace, seen |-> seen]

\* What a hook run hands back: the error it returned ("" for nil) and the
\* calls it made, in order.
HookOut(err, trace) == [err |-> err, trace |-> trace]

\* The hook has no status code of its own; its result is HookOut.
HookReturn(t, req, err, trace, saves, writes, seen, keep) ==
    /\ last' = Respond("proposal_update", req, 0, HookOut(err, trace),
                       saves, writes, seen, keep)
    /\ tasks' = [tasks EXCEPT ![t] = Idle]

\* A hook that skips soft-deleted records only.
HookSkipsDeletedOnly(rec) == rec.is_deleted

\* Lines 361-371: nothing to do for a soft-deleted record or for a status
\* other than accepted.
HookSkips(rec) == rec.is_deleted \/ rec.status # "accepted"

\* PATCH /api/collections/proposals/records/:id under the update rule: the
\* record is stored, then the hook starts with the stored record (lines
\* 361-371).
ProposalUpdateBegin(t, req, keep) ==
    /\ tasks[t] = Idle
    /\ req.id \in DOMAIN proposals
    /\ ~proposals[req.id].is_deleted
    /\ LET rec == [proposals[req.id] EXCEPT !.status = req.status,
                                            !.is_deleted = req.is_deleted]
           seen == Seen("proposal_update", req)
       IN  /\ proposals' = [proposals EXCEPT ![req.id] = rec]
           /\ IF HookSkips(rec)
              THEN HookReturn(t, req, "", <<>>, 0, 0, seen, keep)
              ELSE /\ tasks' = [tasks EXCEPT ![t] =
                                   HookTask("query", req, rec, <<>>, seen)]
                   /\ last' = Started(keep)
    /\ UNCHANGED <<calc, users, payments, conversations, stripeSessions, stream,
                   nextSession>>

\* Lines 373-388: the existence check, then the project is looked up.
HookQuery(t, queryOk, projectOk, keep) ==
    /\ tasks[t].pc = "query"
    /\ LET k == tasks[t]
       IN  IF ~queryOk
           THEN HookReturn(t, k.req, "query", <<"query">>, 0, 0, k.seen, keep)
           ELSE IF ConversationFound(conversations, k.req.id)
           THEN HookReturn(t, k.req, "", <<"query">>, 0, 0, k.seen, keep)
           ELSE IF ~projectOk \/ k.rec.project_id \notin DOMAIN projects
           THEN HookReturn(t, k.req, "project", <<"query", "project">>, 0, 0,
                           k.seen, keep)
           ELSE /\ tasks' = [tasks EXCEPT ![t] =
                                [k EXCEPT !.pc = "upsert",
                                          !.trace = <<"query", "project">>]]
                /\ UNCHANGED last
    /\ UNCHANGED <<calc, users, payments, proposals, conversations, stripeSessions,
                   stream, nextSession>>

\* Lines 390-400: client.UpsertUsers.
HookUpsert(t, ok, keep) ==
    /\ tasks[t].pc = "upsert"
    /\ LET k == tasks[t]
           trace == Append(k.trace, "upsert")
       IN  IF ~ok
           THEN /\ HookReturn(t, k.req, "upsert", trace, 0, 0, k.seen, keep)
                /\ UNCHANGED stream
           ELSE /\ stream' = [stream EXCEPT !.users =
                                 @ \cup {k.rec.client_id, k.rec.freelancer_id}]
                /\ tasks' = [tasks EXCEPT ![t] =
                                [k EXCEPT !.pc = "channel", !.trace = trace]]
                /\ UNCHANGED last
    /\ UNCHANGED <<calc, users, payments, proposals, conversations, stripeSessions,
                   nextSession>>

\* Lines 402-405: client.CreateChannelWithMembers.
HookChannel(t, ok, keep) ==
    /\ tasks[t].pc = "channel"
    /\ LET k == tasks[t]
           trace == Append(k.trace, "channel")
       IN  IF ~ok
           THEN /\ HookReturn(t, k.req, "channel", trace, 0, 0, k.seen, keep)
                /\ UNCHANGED stream
           ELSE /\ stream' = [stream EXCEPT !.channels =
                                 @ \cup {channelId(k.rec.project_id)}]
                /\ tasks' = [tasks EXCEPT ![t] =
                                [k EXCEPT !.pc = "save", !.trace = trace]]
                /\ UNCHANGED last
    /\ UNCHANGED <<calc, users, payments, proposals, conversations, stripeSessions,
                   nextSession>>

\* Lines 407-418: the Conversation record is built and saved.
HookSave(t, ok, keep) ==
    /\ tasks[t].pc = "save"
    /\ tasks[t].op = "proposal_update"
    /\ LET k == tasks[t]
           trace == Append(k.trace, "save")
       IN  IF ~ok
           THEN /\ HookReturn(t, k.req, "save", trace, 1, 0, k.seen, keep)
                /\ UNCHANGED conversations
           ELSE /\ conversations' =
                       Append(conversations,
                              NewConversation(k.rec.project_id, k.req.id))
                /\ HookReturn(t, k.req, "", trace, 1, 1, k.seen, keep)
    /\ UNCHANGED <<calc, users, payments, proposals, stripeSessions, stream,
                   nextSession>>

ProposalRequests ==
    {[id |-> i, status |-> st, is_deleted |-> d] :
        i \in {1, 2}, st \in ProposalStatuses, d \in BOOLEAN}

HookStep(t, keep) ==
    \/ \E q \in BOOLEAN, p \in BOOLEAN : HookQuery(t, q, p, keep)
    \/ \E ok \in BOOLEAN : HookUpsert(t, ok, keep)
    \/ \E ok \in BOOLEAN : HookChannel(t, ok, keep)
    \/ \E ok \in BOOLEAN : HookSave(t, ok, keep)

HookCreate ==
    \E f \in {"f1", "f2", "f3"}, p \in ProjectIds : ProposalCreate(f, p)

\* Updates that do not overlap: one runs its hook to the end before the next.
HookSeqNext ==
    \/ AllIdle /\ HookCreate
    \/ AllIdle /\ \E req \in ProposalRequests : ProposalUpdateBegin(1, req, TRUE)
    \/ HookStep(1, TRUE)

HookSeqSpec == Init /\ [][HookSeqNext]_vars

\* Updates on MaxTasks goroutines.
HookNext ==
    \/ HookCreate
    \/ \E t \in TaskIds :
          \/ \E req \in ProposalRequests : ProposalUpdateBegin(t, req, FALSE)
          \/ HookStep(t, FALSE)

HookSpec == Init /\ [][HookNext]_vars

(***************************************************************************)
(* calculatePlatformFee: float64 arithmetic. A float is mant * 2^exp with   *)
(* a mantissa of MantBits bits (53 in float64, scaled as the integers are), *)
(* and every operation rounds its exact result to the nearest float, ties   *)
(* to the even mantissa. The values at hand are never negative.            *)
(***************************************************************************)
MantBits == 14

Float(mant, exp) == [mant |-> mant, exp |-> exp]

FloatZero == Float(0, 0)

\* The float nearest to (n / d) * 2^exp, for n > 0 and d > 0.
RECURSIVE RoundToFloat(_, _, _)
RoundToFloat(n, d, exp) ==
    IF n >= d * 2^MantBits THEN RoundToFloat(n, 2 * d, exp + 1)
    ELSE IF n < d * 2^(MantBits - 1) THEN RoundToFloat(2 * n, d, exp - 1)
    ELSE LET q == n \div d
             r == n % d
             up == 2 * r > d \/ (2 * r = d /\ q % 2 = 1)
             mant == IF up THEN q + 1 ELSE q
         IN  IF mant = 2^MantBits THEN Float(2^(MantBits - 1), exp + 1)
             ELSE Float(mant, exp)

\* float64(amount) for amount >= 0.
FromInt(i) == IF i = 0 THEN FloatZero ELSE RoundToFloat(i, 1, 0)

\* strconv.ParseFloat of the decimal n/d, which rounds correctly.
ParseFloat(dec) == IF dec.n = 0 THEN FloatZero ELSE RoundToFloat(dec.n, dec.d, 0)

FloatMul(a, b) ==
    IF a.mant = 0 \/ b.mant = 0 THEN FloatZero
    ELSE RoundToFloat(a.mant * b.mant, 1, a.exp + b.exp)

FloatDiv(a, b) ==
    IF a.mant = 0 THEN FloatZero
    ELSE RoundToFloat(a.mant, b.mant, a.exp - b.exp)

\* math.Round: the nearest integer, halves away from zero.
MathRound(a) ==
    IF a.exp >= 0 THEN a.mant * 2^a.exp
    ELSE IF -a.exp > MantBits THEN 0
    ELSE LET d == 2^(-a.exp)
         IN  IF 2 * (a.mant % d) >= d THEN (a.mant \div d) + 1
             ELSE a.mant \div d

\* int64(x) of a float that holds an integer: the results a build can give.
\* The conversion of a value that int64 cannot hold is implementation-
\* specific: amd64 yields the minimum, arm64 the maximum.
ToInt64(x) == IF x > MaxInt THEN {MinInt, MaxInt} ELSE {x}

\* main.go 421-423.
calculatePlatformFee(amount, percent) ==
    ToInt64(MathRound(FloatDiv(FloatMul(FromInt(amount), percent), FromInt(100))))

Decimal(n, d) == [n |-> n, d |-> d]

\* Values of STRIPE_PLATFORM_FEE_PERCENT that mustStripeConfig accepts.
FeePercents ==
    {Decimal(n, 1) : n \in {0, 1, 2, 5, 10, 33, 50, 99, 100}}
    \cup {Decimal(5, 10), Decimal(23, 10), Decimal(25, 10), Decimal(999, 10),
          Decimal(15, 100)}

\* Amounts in cents that pass the check of line 83.
FeeAmounts ==
    (1..30) \cup {100, 250, 1000, 1250, 1500, 9999, 10000, MaxInt - 1, MaxInt}

Calculate(amount, dec) ==
    /\ calc = NoFee
    /\ \E fee \in calculatePlatformFee(amount, ParseFloat(dec)) :
           calc' = [done |-> TRUE, amount |-> amount, percent |-> dec,
                    fee |-> fee]
    /\ UNCHANGED <<users, payments, proposals, conversations, stripeSessions,
                   stream, nextSession, tasks, last>>

Forget ==
    /\ calc # NoFee
    /\ calc' = NoFee
    /\ UNCHANGED <<users, payments, proposals, conversations, stripeSessions,
                   stream, nextSession, tasks, last>>

FeeNext ==
    \/ \E amount \in FeeAmounts, dec \in FeePercents : Calculate(amount, dec)
    \/ Forget

FeeSpec == Init /\ [][FeeNext]_vars

(***************************************************************************)
(* Overlapping deliveries of one webhook event. The handlers first run one  *)
(* after the other and build a store; then an event arrives and is         *)
(* delivered again and again, on up to MaxTasks goroutines at a time, while *)
(* nothing else runs. The payment handlers and the identity handlers write  *)
(* different collections, so a run builds the store of one of the two.      *)
(***************************************************************************)
\* The event that is being delivered and the store when it arrived first.
Deliveries(op, req) ==
    [kind |-> "deliveries", op |-> op, req |-> req,
     payments |-> payments, users |-> users]

Arrive(op, req) ==
    /\ AllIdle
    /\ last = NoResponse
    /\ last' = Deliveries(op, req)
    /\ UNCHANGED <<calc, users, payments, proposals, conversations,
                   stripeSessions, stream, nextSession, tasks>>

Delivering(op) == last.kind = "deliveries" /\ last.op = op

RedeliveryNext ==
    \/ /\ last = NoResponse
       /\ users = InitUsers
       /\ \/ /\ AllIdle
             /\ \/ \E req \in CheckoutRequests, ok \in BOOLEAN :
                       CheckoutBegin(1, req, ok, FALSE)
                \/ \E req \in WebhookRequests : StripeWebhookBegin(1, req, FALSE)
          \/ PayStep(1, FALSE)
    \/ /\ last = NoResponse
       /\ payments = <<>>
       /\ stripeSessions = {}
       /\ \/ /\ AllIdle
             /\ \/ \E a \in StartAuths, ok \in BOOLEAN :
                       DiditStartBegin(1, a, ok, FALSE)
                \/ \E req \in BodyRequests : DiditWebhookBegin(1, req, FALSE)
          \/ DiditStep(1, FALSE)
    \/ \E req \in WebhookRequests : Arrive("webhook", req)
    \/ \E req \in BodyRequests : Arrive("didit_webhook", req)
    \/ /\ Delivering("webhook")
       /\ \E t \in TaskIds :
              \/ StripeWebhookBegin(t, last.req, FALSE)
              \/ \E ok \in BOOLEAN : StripeWebhookSave(t, ok, FALSE)
    \/ /\ Delivering("didit_webhook")
       /\ \E t \in TaskIds :
              \/ DiditWebhookBegin(t, last.req, FALSE)
              \/ \E ok \in BOOLEAN : DiditWebhookSave(t, ok, FALSE)

RedeliverySpec == Init /\ [][RedeliveryNext]_vars

(***************************************************************************)
(* PROPERTIES                                                              *)
(***************************************************************************)

\* A handled, well-formed event whose payment_id names a stored Payment.
Applicable(req) ==
    /\ req.shape = "ok"
    /\ req.type \in HandledTypes
    /\ req.payment_id \in DOMAIN payments

\* The step is the save of a webhook request that the provider did not sign.
ForgedWrite ==
    \E t \in TaskIds :
        /\ tasks[t].pc = "save"
        /\ tasks[t].op = "webhook"
        /\ ~tasks[t].req.signed
        /\ tasks'[t] = Idle

\* C1: no checkout call and no delivery by the provider changes a
\* Payment's status unless the status it changes is "created": a status, once
\* paid or failed, stays what it is.
C1_StatusMovesOnlyFromCreated ==
    [][\A id \in DOMAIN payments :
          (payments'[id].status # payments[id].status /\ ~ForgedWrite)
              => payments[id].status = "created"]_vars

\* C2 as stated: the second of two successive deliveries of the same
\* applicable event is answered 200 and does not call SaveRecord.
C2_SecondDeliveryNeverSaves ==
    (Returned("webhook") /\ last.again /\ Applicable(last.req))
        => (last.code = 200 /\ last.saves = 0)

\* C2 amended: two successive deliveries of the same applicable event make at
\* most one successful write; and when the first was answered 200, the
\* second is answered 200 without calling SaveRecord and the Payment has the
\* event's target status, as after the first.
C2_RedeliveryAfterSuccessIsNoOp ==
    (Returned("webhook") /\ last.again /\ Applicable(last.req))
        => /\ last.prev.writes + last.writes <= 1
           /\ last.prev.code = 200
                => /\ last.code = 200
                   /\ last.saves = 0
                   /\ payments[last.req.payment_id].status
                          = TargetStatus(last.req.type)

C2_Witness ==
    /\ Returned("webhook")
    /\ last.again
    /\ Applicable(last.req)
    /\ last.prev.code = 200
    /\ last.prev.writes = 1
    /\ last.code = 200
    /\ last.saves = 0

\* C6: a webhook request that changed a Payment carried the provider's
\* valid signature.
C6_OnlySignedRequestsWrite ==
    (Returned("webhook") /\ last.writes > 0) => last.req.signed

\* C10 as stated: when session.New failed, the checkout call returns with the
\* Payment it created stored with status "failed", an upstream error as the
\* response and no checkout URL.
C10_FailedSessionLeavesFailedPayment ==
    (Returned("checkout") /\ last.out.provider = "failed")
        => /\ last.out.id \in DOMAIN payments
           /\ payments[last.out.id].status = "failed"
           /\ last.code \in {500, 502}
           /\ last.out.url = ""

\* C10 amended: when session.New failed, the call returns 500 without a
\* checkout URL and the Payment it created is still stored; its status is
\* "failed" if the second save succeeded and "created" if that save failed.
C10_FailedSessionCompensatedIfSaved ==
    (Returned("checkout") /\ last.out.provider = "failed")
        => /\ last.out.id \in DOMAIN payments
           /\ payments[last.out.id].status
                  = (IF last.writes = 2 THEN "failed" ELSE "created")
           /\ last.code = 500
           /\ last.out.url = ""

C10_Witness ==
    /\ Returned("checkout")
    /\ last.out.provider = "failed"
    /\ last.writes = 2
    /\ payments[last.out.id].status = "failed"

\* What the claims call a request with a valid signature and timestamp: the
\* header holds an integer at most 300 seconds from the server's clock, and
\* the signature header is the lower-case hex digest of the body.
Abs(x) == IF x < 0 THEN -x ELSE x

FreshAndSigned(req) ==
    /\ req.meant.kind = "int"
    /\ Abs(req.now - req.meant.val) <= 300
    /\ req.sig = HexEncode(HmacSha256(WebhookSecret, req.body))

Reached(stage) == \E i \in 1..Len(last.out.trace) : last.out.trace[i] = stage

\* C3: the second of two successive deliveries of the same identity event,
\* with valid signature and timestamp, writes no record (the first delivery
\* having saved whatever it tried to save).
C3_IdentityRedeliveryWritesNothing ==
    (/\ Returned("didit_webhook")
     /\ last.again
     /\ FreshAndSigned(last.req)
     /\ last.prev.saves = last.prev.writes)
        => last.writes = 0

\* C7: a request gets past the two checks exactly if its signature header is
\* the hex digest of its body and its timestamp is at most 300 seconds from
\* the clock, in either direction.
C7_AcceptedIffSignedAndFresh ==
    Returned("didit_webhook") => (Reached("decode") <=> FreshAndSigned(last.req))

C7_Witness ==
    /\ Returned("didit_webhook")
    /\ Reached("decode")
    /\ last.req.now - last.req.meant.val = 300

\* C8: a step in which a request with a bad timestamp or signature header
\* returns answers 401, leaves the users as they were, and the request has
\* been neither decoded nor looked up nor saved.
C8_BadHeadersRejectedUntouched ==
    [][(Returned("didit_webhook")' /\ ~FreshAndSigned(last'.req))
          => /\ last'.code = 401
             /\ users' = users
             /\ last'.saves = 0
             /\ \A i \in 1..Len(last'.out.trace) :
                    last'.out.trace[i] \in {"timestamp", "signature"}]_vars

C8_Witness ==
    /\ Returned("didit_webhook")
    /\ ~FreshAndSigned(last.req)
    /\ last.req.meant.kind = "int"
    /\ last.code = 401
    /\ Reached("signature")
    /\ \E u \in DOMAIN users : users[u].didit_session_id = 1

\* C9: a request that passes the two checks is answered 200, and 401 answers
\* only a request that fails one of them.
C9_VerifiedRequestsAnswered200 ==
    Returned("didit_webhook")
        => /\ FreshAndSigned(last.req) => last.code = 200
           /\ last.code = 401 => ~FreshAndSigned(last.req)

ConversationsOf(pid) ==
    {i \in DOMAIN conversations : conversations[i].proposal_id = pid}

AcceptedRun ==
    /\ Returned("proposal_update")
    /\ last.req.status = "accepted"
    /\ ~last.req.is_deleted

\* C4 as stated: after any hook run for a non-deleted accepted proposal that
\* does not overlap another, exactly one Conversation record exists for the
\* proposal.
C4_OneConversationAfterRun ==
    AcceptedRun => Cardinality(ConversationsOf(last.req.id)) = 1

\* C4: after a hook run for a non-deleted accepted proposal that does not
\* overlap another and returned no error, exactly one Conversation record
\* exists for the proposal, whether the run was the first or a re-save.
C4_OneConversationAfterSuccessfulRun ==
    (AcceptedRun /\ last.out.err = "")
        => Cardinality(ConversationsOf(last.req.id)) = 1

\* A re-save of an accepted proposal whose Conversation the run before it
\* created.
C4_Witness ==
    /\ AcceptedRun
    /\ last.out.err = ""
    /\ last.again
    /\ last.prev.writes = 1
    /\ last.writes = 0
    /\ Cardinality(ConversationsOf(last.req.id)) = 1

\* C5: no proposal ever has two Conversation records that are not
\* soft-deleted.
C5_AtMostOneLiveConversation ==
    \A pid \in DOMAIN proposals :
        Cardinality(LiveConversations(conversations, pid)) <= 1

\* The preconditions of a checkout call: the caller is an authenticated
\* client, the amount is positive, the project exists, is live and is the
\* caller's, the freelancer exists, is live and is a freelancer.
CheckoutPreconditions(req) ==
    /\ req.auth # NoAuth
    /\ users[req.auth].role = "client"
    /\ req.amount > 0
    /\ req.project_id \in DOMAIN projects
    /\ ~projects[req.project_id].is_deleted
    /\ projects[req.project_id].client_id = req.auth
    /\ req.freelancer_id \in DOMAIN users
    /\ ~users[req.freelancer_id].is_deleted
    /\ users[req.freelancer_id].role = "freelancer"

PaymentsCreated == Cardinality(DOMAIN payments) - last.before.payments

SessionsCreated == Cardinality(stripeSessions) - last.before.sessions

C12_RejectedCallHasNoEffect ==
    (Returned("checkout") /\ ~CheckoutPreconditions(last.req))
        => /\ PaymentsCreated = 0
           /\ SessionsCreated = 0
           /\ last.saves = 0
           /\ last.out.provider = "none"

C12_Witness ==
    /\ Returned("checkout")
    /\ ~CheckoutPreconditions(last.req)
    /\ last.req.auth = "c2"
    /\ payments # <<>>
    /\ PaymentsCreated = 0

\* C13: the status code of a checkout call that fails one check: 400 for a
\* non-positive amount or a missing id, 403 for a caller that is no client or
\* does not own the project or a freelancer without the freelancer role, 404
\* for a missing project or freelancer, 500 or 502 for a failed provider call.
C13_CheckoutStatusCodes ==
    Returned("checkout") =>
        LET req == last.req
            caller == req.auth # NoAuth /\ users[req.auth].role = "client"
            body == caller /\ req.bindOk
            given == body /\ req.amount > 0
                          /\ req.project_id # "" /\ req.freelancer_id # ""
            project == /\ given
                       /\ req.project_id \in DOMAIN projects
                       /\ ~projects[req.project_id].is_deleted
                       /\ projects[req.project_id].client_id = req.auth
        IN  /\ (req.auth # NoAuth /\ ~caller) => last.code = 403
            /\ (body /\ ~given) => last.code = 400
            /\ (given /\ req.project_id \notin DOMAIN projects) => last.code = 404
            /\ (given /\ req.project_id \in DOMAIN projects
                      /\ ~projects[req.project_id].is_deleted
                      /\ projects[req.project_id].client_id # req.auth)
                   => last.code = 403
            /\ (project /\ req.freelancer_id \notin DOMAIN users) => last.code = 404
            /\ (project /\ req.freelancer_id \in DOMAIN users
                        /\ ~users[req.freelancer_id].is_deleted
                        /\ users[req.freelancer_id].role # "freelancer")
                   => last.code = 403
            /\ last.out.provider = "failed" => last.code \in {500, 502}

\* C20: the step that takes a checkout call to its provider call has stored
\* the Payment with status created and empty provider fields; a provider
\* session is created only for a payment id that is already stored, and the
\* payment id of every provider session names a stored Payment.
C20_PaymentStoredBeforeSession ==
    [][/\ \A s \in stripeSessions' : s.payment_id \in DOMAIN payments'
       /\ \A s \in stripeSessions' \ stripeSessions :
              s.payment_id \in DOMAIN payments
       /\ \A t \in TaskIds :
              (tasks[t] = Idle /\ tasks'[t].pc = "session")
                  => /\ tasks'[t].id \in DOMAIN payments'
                     /\ payments'[tasks'[t].id].status = "created"
                     /\ payments'[tasks'[t].id].stripe_checkout_session_id = NoId
                     /\ payments'[tasks'[t].id].stripe_payment_intent_id = ""]_vars

\* Two checkout calls under way, one of them past its provider call.
C20_Witness ==
    /\ \E s \in stripeSessions : payments[s.payment_id].status = "created"
    /\ \E t \in TaskIds : tasks[t].pc = "save" /\ tasks[t].op = "checkout"
                          /\ tasks[t].provider = "ok"
    /\ \E t \in TaskIds : tasks[t].pc = "session"

\* The event types the webhook is to handle, and the status each asks for.
KnownEventTypes ==
    {"checkout.session.completed", "payment_intent.succeeded",
     "payment_intent.payment_failed"}

AskedStatus(type) ==
    IF type = "payment_intent.payment_failed" THEN "failed" ELSE "paid"

\* C14: a returning payment webhook delivery with an unknown event type
\* answers 400, one of a known type without payment_id answers 400, one whose
\* payment_id names no Payment answers 404, all three without changing a
\* Payment; a delivery answered 200 names a Payment that is now in the status
\* its type asks for, changed by this delivery or not at all.
C14_WebhookRejections ==
    [][Returned("webhook")' =>
        LET req == last'.req
            known == req.shape \in {"ok", "nointent"} /\ req.type \in KnownEventTypes
        IN  /\ (req.shape # "badjson" /\ req.type \notin KnownEventTypes)
                   => (last'.code = 400 /\ payments' = payments)
            /\ (known /\ req.payment_id = NoId)
                   => (last'.code = 400 /\ payments' = payments)
            /\ (known /\ req.payment_id # NoId
                      /\ req.payment_id \notin DOMAIN payments)
                   => (last'.code = 404 /\ payments' = payments)
            /\ last'.code = 200
                   => /\ known
                      /\ req.payment_id \in DOMAIN payments
                      /\ payments'[req.payment_id].status = AskedStatus(req.type)
                      /\ \/ payments' = payments
                         \/ payments[req.payment_id].status # AskedStatus(req.type)]_vars

\* C15 as stated: a returning delivery of an event of a known type that
\* carries an intent id and the id of a Payment in status created leaves the
\* Payment in the status the type asks for, with the event's intent id.
C15_EventAppliedToCreatedPayment ==
    [][(/\ Returned("webhook")'
        /\ last'.req.shape = "ok"
        /\ last'.req.type \in KnownEventTypes
        /\ last'.req.payment_id \in DOMAIN payments
        /\ payments[last'.req.payment_id].status = "created")
          => /\ payments'[last'.req.payment_id].status = AskedStatus(last'.req.type)
             /\ payments'[last'.req.payment_id].stripe_payment_intent_id
                    = last'.req.intent]_vars

\* C15: the same for a delivery that is answered 200.
C15_AnsweredEventAppliedToCreatedPayment ==
    [][(/\ Returned("webhook")'
        /\ last'.code = 200
        /\ last'.req.shape = "ok"
        /\ last'.req.type \in KnownEventTypes
        /\ last'.req.payment_id \in DOMAIN payments
        /\ payments[last'.req.payment_id].status = "created")
          => /\ payments'[last'.req.payment_id].status = AskedStatus(last'.req.type)
             /\ payments'[last'.req.payment_id].stripe_payment_intent_id
                    = last'.req.intent]_vars

\* Checkout success followed by "checkout completed": paid, intent stored.
C15_Witness ==
    /\ Returned("webhook")
    /\ last.code = 200
    /\ last.writes = 1
    /\ last.req.type = "checkout.session.completed"
    /\ last.req.signed
    /\ last.req.intent = "pi_A"
    /\ payments[last.req.payment_id].status = "paid"
    /\ payments[last.req.payment_id].stripe_payment_intent_id = "pi_A"
    /\ payments[last.req.payment_id].stripe_checkout_session_id # NoId

\* The session id a decodable body carries, NoId if it carries none.
SessionOf(body) ==
    IF body.json /\ body.strings /\ "session_id" \in DOMAIN body.obj
    THEN body.obj.session_id ELSE NoId

\* C16: a returning delivery of a fresh, correctly signed identity webhook
\* whose body decodes and carries a session id that no user has stored
\* answers 200, calls no save and leaves every user as it was.
C16_UnknownSessionAnswered200 ==
    [][(/\ Returned("didit_webhook")'
        /\ FreshAndSigned(last'.req)
        /\ SessionOf(last'.req.body) # NoId
        /\ \A u \in DOMAIN users :
               users[u].didit_session_id # SessionOf(last'.req.body))
          => /\ last'.code = 200
             /\ last'.saves = 0
             /\ users' = users]_vars

C16_Witness ==
    /\ Returned("didit_webhook")
    /\ FreshAndSigned(last.req)
    /\ SessionOf(last.req.body) = 2
    /\ \A u \in DOMAIN users : users[u].didit_session_id # 2
    /\ \E u \in DOMAIN users : users[u].didit_session_id = 1
    /\ Reached("find")
    /\ last.code = 200

\* C18: a returning verify/start call answered 200 leaves its user with the
\* session id the provider has just issued, which no user had before, and
\* status pending, and answers with that session id and the verification
\* URL; one whose provider call failed is answered 502 and leaves the users
\* as they were.
C18_StartStoresSessionPending ==
    [][Returned("didit_start")' =>
        /\ last'.code = 200
              => /\ users'[last'.req].didit_session_id = nextSession'
                 /\ \A u \in DOMAIN users :
                        users[u].didit_session_id # nextSession'
                 /\ users'[last'.req].verification_status = "pending"
                 /\ last'.out.session_id = nextSession'
                 /\ last'.out.url # ""
        /\ last'.out.provider = "failed"
              => /\ last'.code = 502
                 /\ users' = users]_vars

\* A user who starts again after an event was applied to the first session.
C18_Witness ==
    /\ Returned("didit_start")
    /\ last.code = 200
    /\ last.out.session_id = 2
    /\ users[last.req].didit_session_id = 2
    /\ users[last.req].verification_status = "pending"

\* C19: every project has at most one Conversation record that is not
\* soft-deleted, and the channel id of every Conversation is "project_"
\* followed by its project id.
C19_OneLiveConversationPerProject ==
    /\ \A p \in ProjectIds :
           Cardinality({i \in DOMAIN conversations :
                           /\ conversations[i].project_id = p
                           /\ ~conversations[i].is_deleted}) <= 1
    /\ \A i \in DOMAIN conversations :
           conversations[i].stream_channel_id
               = <<"project_", conversations[i].project_id>>

\* n / d rounded to the nearest integer, halves away from zero (n >= 0).
Nearest(n, d) == IF 2 * (n % d) >= d THEN (n \div d) + 1 ELSE n \div d

\* C17: the fee computed for an amount A > 0 and a percent P in 0..100 is at
\* least 0, at most A, and is A*P/100 rounded to the nearest integer.
C17_FeeIsNearestInteger ==
    calc.done
        => /\ 0 <= calc.fee
           /\ calc.fee <= calc.amount
           /\ calc.fee = Nearest(calc.amount * calc.percent.n, 100 * calc.percent.d)

\* The provider session that the checkout call that returned last created.
SessionOfCall ==
    {s \in stripeSessions :
        /\ s.id > last.before.sessions
        /\ s.payment_id = last.out.id}

\* C21 as stated: when a checkout call that created a provider session has
\* returned, its Payment stores the id of that session; a call that returns
\* a checkout URL has created a session whose id its Payment stores.
C21_SessionIdStoredAfterCall ==
    Returned("checkout")
        => /\ \A s \in SessionOfCall :
                  /\ s.payment_id \in DOMAIN payments
                  /\ payments[s.payment_id].stripe_checkout_session_id = s.id
           /\ last.out.url # ""
                  => /\ last.out.id \in DOMAIN payments
                     /\ \E s \in SessionOfCall :
                            payments[last.out.id].stripe_checkout_session_id = s.id

\* C21: the same for a call that returned success; a call that returns a
\* checkout URL has returned success.
C21_SessionIdStoredAfterSuccess ==
    Returned("checkout")
        => /\ last.code = 200
                  => \A s \in SessionOfCall :
                         /\ s.payment_id \in DOMAIN payments
                         /\ payments[s.payment_id].stripe_checkout_session_id = s.id
           /\ last.out.url # ""
                  => /\ last.code = 200
                     /\ last.out.id \in DOMAIN payments
                     /\ \E s \in SessionOfCall :
                            payments[last.out.id].stripe_checkout_session_id = s.id

C21_Witness ==
    /\ Returned("checkout")
    /\ last.code = 200
    /\ last.out.url # ""
    /\ last.out.id = 2
    /\ \E s \in SessionOfCall : payments[2].stripe_checkout_session_id = s.id

\* A body that decodes to an event with a session id, a status and a type.
CompleteEvent(body) ==
    /\ body.json
    /\ body.strings
    /\ {"session_id", "status", "webhook_type"} \subseteq DOMAIN body.obj
    /\ body.obj.session_id # NoId
    /\ body.obj.status # ""
    /\ body.obj.webhook_type # ""

ReasonOf(body) == IF "reason" \in DOMAIN body.obj THEN body.obj.reason ELSE ""

\* The lower-case spelling of the status texts of the events.
LowerCase(s) ==
    CASE s = "Approved" -> "approved"
      [] s = "Declined" -> "declined"
      [] OTHER -> s

\* The event of the request differs from what user u has stored.
Differs(req, u) ==
    \/ users[u].verification_status # LowerCase(req.body.obj.status)
    \/ users[u].verification_reason # ReasonOf(req.body)

\* User u has after the step what the event of the request asks for.
VerificationApplied(req, u) ==
    /\ users'[u].verification_status = LowerCase(req.body.obj.status)
    /\ users'[u].verification_reason =
           IF ReasonOf(req.body) # "" THEN ReasonOf(req.body)
           ELSE users[u].verification_reason
    /\ users'[u].didit_session_id = users[u].didit_session_id
    /\ users'[u].role = users[u].role
    /\ users'[u].is_deleted = users[u].is_deleted

SessionIdsKept == \A u \in DOMAIN users :
    users'[u].didit_session_id = users[u].didit_session_id

C23_StatusIsOneOfThree ==
    \A u \in DOMAIN users :
        users[u].verification_status \in {"", "pending", "approved", "rejected"}

\* C24: a returning delivery of an identity webhook whose save failed is
\* answered 200 and leaves every user as stored; the delivery of the same
\* event that follows it calls the save again and, when that save succeeds,
\* leaves the user with what the event asks for.
C24_FailedSaveAnswered200AndRetried ==
    [][Returned("didit_webhook")'
          => /\ (last'.saves = 1 /\ last'.writes = 0)
                   => /\ last'.code = 200
                      /\ users' = users
             /\ (/\ last'.again
                 /\ last'.prev.saves = 1
                 /\ last'.prev.writes = 0)
                   => /\ last'.saves = 1
                      /\ last'.code = 200
                      /\ last'.writes = 1
                            => \A u \in DOMAIN users :
                                   users[u].didit_session_id = SessionOf(last'.req.body)
                                      => VerificationApplied(last'.req, u)]_vars

C24_Witness ==
    /\ Returned("didit_webhook")
    /\ last.again
    /\ last.prev.saves = 1
    /\ last.prev.writes = 0
    /\ last.prev.code = 200
    /\ last.writes = 1
    /\ \E u \in DOMAIN users :
           /\ users[u].didit_session_id = SessionOf(last.req.body)
           /\ users[u].verification_status = LowerCase(last.req.body.obj.status)
           /\ users[u].verification_status # "pending"

\* C25: a returning hook run for a record that is soft-deleted or whose
\* status is not accepted returns nil, has made no call to the store or to
\* the messaging provider and leaves the Conversations and the provider as
\* they were.
C25_SkippedRunHasNoEffect ==
    [][(/\ Returned("proposal_update")'
        /\ (last'.req.is_deleted \/ last'.req.status # "accepted"))
          => /\ last'.out.err = ""
             /\ last'.out.trace = <<>>
             /\ last'.saves = 0
             /\ conversations' = conversations
             /\ stream' = stream]_vars

C25_Witness ==
    /\ Returned("proposal_update")
    /\ last.req.status = "rejected"
    /\ ~last.req.is_deleted
    /\ last.again
    /\ last.out.err = ""
    /\ last.out.trace = <<>>
    /\ ConversationsOf(last.req.id) = {}

\* The Conversations of proposal pid that are not soft-deleted.
LiveOf(pid) == {i \in ConversationsOf(pid) : ~conversations[i].is_deleted}

\* The step is the last one of a hook run for a non-deleted accepted
\* proposal; such a run takes more than one step.
AcceptedRunReturns == ~AllIdle /\ AcceptedRun'

\* C26: a returning hook run for a non-deleted accepted proposal that has a
\* live Conversation has made the existence query only, returns nil unless
\* the query failed, and leaves the Conversations and the provider as they
\* were; a run whose existence query failed with a store error returns that
\* error, has made the query only and leaves both as they were.
C26_ExistingConversationShortCircuits ==
    [][AcceptedRunReturns
          => /\ LiveOf(last'.req.id) # {}
                   => /\ last'.out.err \in {"", "query"}
                      /\ last'.out.trace = <<"query">>
                      /\ last'.saves = 0
                      /\ conversations' = conversations
                      /\ stream' = stream
             /\ last'.out.err = "query"
                   => /\ last'.out.trace = <<"query">>
                      /\ last'.saves = 0
                      /\ conversations' = conversations
                      /\ stream' = stream]_vars

C26_Witness ==
    /\ AcceptedRun
    /\ last.again
    /\ last.prev.writes = 1
    /\ last.out.err = ""
    /\ last.out.trace = <<"query">>
    /\ Cardinality(LiveOf(last.req.id)) = 1

\* The calls of a hook run in the order of the specification.
ProvisioningSteps == <<"query", "project", "upsert", "channel", "save">>

\* C27: the calls a returning hook run for a non-deleted accepted proposal
\* has made are an initial part of: existence query, resolve project, upsert
\* users, create channel, persist Conversation; a run that returns an error
\* stopped at the call that failed and wrote no Conversation, and after a
\* failure of one of the four provisioning steps the proposal has no
\* Conversation; a run that wrote a Conversation made all calls, and every
\* Conversation names a channel that the provider has created.
C27_StepsInOrderAndFailureStops ==
    [][AcceptedRunReturns
          => LET out == last'.out
                 n == Len(out.trace)
             IN  /\ n \in 1..5
                 /\ out.trace = SubSeq(ProvisioningSteps, 1, n)
                 /\ out.err # ""
                       => /\ out.err = out.trace[n]
                          /\ conversations' = conversations
                          /\ last'.writes = 0
                 /\ out.err \in {"project", "upsert", "channel", "save"}
                       => \A i \in DOMAIN conversations' :
                              conversations'[i].proposal_id # last'.req.id
                 /\ (out.err = "" /\ n < 5) => (n = 1 /\ conversations' = conversations)
                 /\ conversations' # conversations
                       => /\ n = 5
                          /\ out.err = ""
                          /\ Len(conversations') = Len(conversations) + 1
                          /\ conversations'[Len(conversations')].stream_channel_id
                                 \in stream.channels
                 /\ \A i \in DOMAIN conversations' :
                        conversations'[i].stream_channel_id \in stream'.channels]_vars

C27_Witness ==
    /\ AcceptedRun
    /\ last.out.err = "channel"
    /\ last.out.trace = <<"query", "project", "upsert", "channel">>
    /\ proposals[last.req.id].client_id \in stream.users
    /\ ConversationsOf(last.req.id) = {}
    /\ conversations # <<>>

\* C28: a returning hook run for a non-deleted accepted proposal that
\* repeats the update of a run that wrote nothing, and that starts with no
\* live Conversation for the proposal, goes past the existence check to the
\* project lookup unless its query fails; when all its calls succeed it has
\* made every provisioning call and the proposal has exactly one live
\* Conversation.
C28_RetryProvisionsAgain ==
    [][(/\ AcceptedRunReturns
        /\ last'.again
        /\ last'.prev.writes = 0
        /\ LiveOf(last'.req.id) = {}
        /\ last'.out.err # "query")
          => /\ Len(last'.out.trace) >= 2
             /\ last'.out.trace[2] = "project"
             /\ last'.out.err = ""
                   => /\ last'.out.trace = ProvisioningSteps
                      /\ last'.writes = 1
                      /\ Cardinality({i \in DOMAIN conversations' :
                             /\ conversations'[i].proposal_id = last'.req.id
                             /\ ~conversations'[i].is_deleted}) = 1]_vars

\* A run whose save failed is followed by a run for the same proposal in
\* which every call succeeds.
C28_Witness ==
    /\ AcceptedRun
    /\ last.again
    /\ last.prev.saves = 1
    /\ last.prev.writes = 0
    /\ last.out.err = ""
    /\ last.out.trace = ProvisioningSteps
    /\ Cardinality(LiveOf(last.req.id)) = 1

\* Task t runs the hook for proposal pid and is at step pc.
HookAt(t, pid, pc) ==
    /\ tasks[t] # Idle
    /\ tasks[t].op = "proposal_update"
    /\ tasks[t].req.id = pid
    /\ tasks[t].pc = pc

\* C29: among overlapping hook runs, every run that is about to persist its
\* Conversation found none in its existence check and has made its own
\* channel-creation call for the channel of the proposal's project, which
\* the provider has created; and a run that is about to create the channel
\* can do so whatever the other runs are doing.
C29_EveryRunPastTheCheckCreatesTheChannel ==
    \A t \in TaskIds :
        /\ (tasks[t] # Idle /\ tasks[t].op = "proposal_update" /\ tasks[t].pc = "save")
              => /\ tasks[t].trace = <<"query", "project", "upsert", "channel">>
                 /\ <<"project_", proposals[tasks[t].req.id].project_id>>
                        \in stream.channels
        /\ (tasks[t] # Idle /\ tasks[t].pc = "channel")
              => ENABLED HookChannel(t, TRUE, FALSE)

\* Two runs for the same accepted proposal have both passed the existence
\* check and both made the channel-creation call before either persisted.
C29_Witness ==
    \E pid \in DOMAIN proposals :
        /\ HookAt(1, pid, "save")
        /\ HookAt(2, pid, "save")
        /\ proposals[pid].status = "accepted"
        /\ LiveOf(pid) = {}
        /\ \A t \in {1, 2} : tasks[t].trace[4] = "channel"

\* The payments after one delivery of event req to the store pre has been
\* applied.
SinglePayment(pre, req) ==
    IF /\ req.shape = "ok"
       /\ req.type \in KnownEventTypes
       /\ req.payment_id \in DOMAIN pre
       /\ pre[req.payment_id].status # AskedStatus(req.type)
    THEN [pre EXCEPT
             ![req.payment_id].status = AskedStatus(req.type),
             ![req.payment_id].stripe_payment_intent_id =
                 IF req.intent # "" THEN req.intent ELSE @]
    ELSE pre

\* The users after one delivery of the identity event of req to the store
\* pre has been applied.
SingleUser(pre, req) ==
    IF FreshAndSigned(req) /\ CompleteEvent(req.body)
    THEN [u \in DOMAIN pre |->
             IF pre[u].didit_session_id = SessionOf(req.body)
             THEN [pre[u] EXCEPT
                      !.verification_status = LowerCase(req.body.obj.status),
                      !.verification_reason =
                          IF ReasonOf(req.body) # "" THEN ReasonOf(req.body)
                          ELSE @]
             ELSE pre[u]]
    ELSE pre

\* C30: while deliveries of one event to one entity overlap, and after they
\* have all returned, the stored Payments are those of the moment the event
\* arrived or those after a single applied delivery of it, and so are the
\* stored users for an identity event.
C30_OverlappingDeliveriesAsOne ==
    /\ Delivering("webhook")
          => /\ payments \in {last.payments, SinglePayment(last.payments, last.req)}
             /\ users = last.users
    /\ Delivering("didit_webhook")
          => /\ users \in {last.users, SingleUser(last.users, last.req)}
             /\ payments = last.payments

\* One delivery has written and returned; the other passed the no-op check
\* before that and is about to write the same record again.
C30_Witness ==
    /\ Delivering("webhook")
    /\ last.req.signed
    /\ tasks[1] = Idle
    /\ payments # last.payments
    /\ payments = SinglePayment(last.payments, last.req)
    /\ tasks[2] # Idle
    /\ tasks[2].pc = "save"
    /\ tasks[2].req = last.req
    /\ tasks[2].rec = payments[last.req.payment_id]

\* Task t returns from a payment webhook delivery in this step.
WebhookDeliveryReturns(t) ==
    /\ tasks[t] # Idle
    /\ tasks[t].op = "webhook"
    /\ tasks[t].pc = "save"
    /\ tasks'[t] = Idle

\* C31: the step in which a payment webhook delivery for payment id X saves
\* and returns changes at most the status and the payment-intent id of
\* Payment X, leaves every other Payment as it was, and creates or deletes
\* no Payment.
C31_WebhookChangesStatusAndIntentOnly ==
    [][\A t \in TaskIds :
          WebhookDeliveryReturns(t)
             => /\ DOMAIN payments' = DOMAIN payments
                /\ \A i \in DOMAIN payments :
                       IF i = tasks[t].req.payment_id
                       THEN /\ payments'[i].amount = payments[i].amount
                            /\ payments'[i].currency = payments[i].currency
                            /\ payments'[i].client_id = payments[i].client_id
                            /\ payments'[i].freelancer_id = payments[i].freelancer_id
                            /\ payments'[i].stripe_checkout_session_id =
                                   payments[i].stripe_checkout_session_id
                            /\ payments'[i].is_deleted = payments[i].is_deleted
                       ELSE payments'[i] = payments[i]]_vars

\* Task t returns from an identity webhook delivery in this step.
IdentityDeliveryReturns(t) ==
    /\ tasks[t] # Idle
    /\ tasks[t].op = "didit_webhook"
    /\ tasks[t].pc = "save"
    /\ tasks'[t] = Idle

\* C32: the step in which an identity webhook delivery saves and returns
\* leaves the user as stored when the user's stored session id is a later
\* one than the session id of the delivery.
C32_SupersededSessionChangesNothing ==
    [][\A t \in TaskIds :
          (/\ IdentityDeliveryReturns(t)
           /\ users[tasks[t].user].didit_session_id
                  > SessionOf(tasks[t].req.body))
             => users'[tasks[t].user] = users[tasks[t].user]]_vars

====
